---- MODULE Spec2Model ----
(***************************************************************************)
(* Model of the Strava gear synchronisation of src/Strava:                 *)
(*   get_all_shoes.py  (main, refresh_access_token,                        *)
(*                      get_all_gear_ids_from_activities, get_gear_details,*)
(*                      get_all_shoes_with_distances)                      *)
(*   redis_client.py   (StravaRedisClient)                                 *)
(*   app.py            (refresh_token_if_needed)                           *)
(* One run of the program (a "cycle") is a sequence of steps, one per      *)
(* network request: the token probe, the refresh exchange, each listing    *)
(* page, each gear detail request.  Everything the code does between two   *)
(* requests belongs to the step of the earlier request.                    *)
(***************************************************************************)
EXTENDS Integers, Sequences, FiniteSets, TLC

\* ------------------------------------------------------------------ bounds
\* Most activities the remote listing ever holds.
MaxAct == 3
\* per_page of the listing request (200 in the source, scaled down here).
per_page == 2

GearIds == {1, 2}
\* The flows that can be inside get_gear_details at the same time.
Resolvers == {1, 2}
\* Access and refresh tokens; 0 stands for a missing or empty token.
Tokens == {1, 2}
\* A gear the remote does not know (answers 404).
NotFound == 0
\* Python's None for a record that is absent.
None == [none |-> TRUE]
\* Most commands the redis server still answers once it is about to go away.
MaxCmds == 3
\* Most runs the athlete adds to a gear after the start.
MaxRuns == 1
\* redis_left of a server that stays: every command is answered.
Up == -1

VARIABLES
  \* ---- remote side
  listing,              \* the athlete's activities, newest first
  remoteGear,           \* gear id -> distance, or NotFound
  validTok,             \* the access token the remote accepts (0: none)
  \* ---- persisted state
  config,               \* config.json: access_token, refresh_token, client
  activity,             \* redis keys activity:<id>  (id -> payload)
  updated_at_index,     \* redis sorted set activities:updated_at (id -> score)
  gear,                 \* redis keys gear:<id>      (id -> payload)
  redis_left,           \* commands the redis server answers before the connection
                        \* is lost (Up: it is not lost); at 0 every command raises
  \* ---- one run of the program
  pc,                   \* "idle", "probe", "refresh", "listing", "gear", "returned", "failed"
  access_token,         \* main's local access_token
  redis_client,         \* the redis_client of get_all_gear_ids_from_activities:
                        \* TRUE a StravaRedisClient, FALSE None
  shoes_redis_client,   \* the redis_client of get_all_shoes_with_distances
  cached_activity_ids,  \* snapshot taken before pagination
  page,                 \* page number of the next listing request
  gear_ids,             \* the working set of gear identifiers
  new_activities_count,
  todo,                 \* what is left of sorted(gear_ids) in the detail loop
  shoes_data,           \* the summaries accumulated so far
  \* ---- flows inside get_gear_details beside the run (other sessions of
  \*      app.py, other processes of the script) on the same redis server
  flows,                \* flow -> [pc, gear_id, requests, answer, result]
  gear_writes,          \* gear id -> number of SETs of gear:<id> by the flows
  \* ---- history of the cache
  put_ids,              \* ids set_activity was called with since the last clear
  \* ---- observations of the run (requests and writes it has made)
  obs,
  \* ---- what the last completed runs left (for run-to-run comparison)
  last

vars == << listing, remoteGear, validTok, config, activity, updated_at_index, gear,
           redis_left, pc, access_token, redis_client, shoes_redis_client,
           cached_activity_ids, page, gear_ids,
           new_activities_count, todo, shoes_data, flows, gear_writes,
           put_ids, obs, last >>

remoteVars == << listing, remoteGear, validTok >>
cacheVars == << activity, updated_at_index, gear >>
listVars == << cached_activity_ids, page, gear_ids, new_activities_count >>
flowVars == << flows, gear_writes >>

\* ------------------------------------------------------------------ helpers
Min(a, b) == IF a < b THEN a ELSE b

\* f with key k bound to v (a redis SET / ZADD on one key).
Put(f, k, v) == [x \in DOMAIN f \cup {k} |-> IF x = k THEN v ELSE f[x]]

Empty == [x \in {} |-> 0]

\* The redis server answers the next k commands when n are left.
Served(n, k) == n = Up \/ n >= k

\* What is left after k answered commands.
After(n, k) == IF n = Up THEN Up ELSE n - k

\* (mutant: every identifier is listed twice)
RECURSIVE SortedSeq_Twice(_)
SortedSeq_Twice(S) ==
  IF S = {} THEN << >>
  ELSE LET m == CHOOSE x \in S : \A y \in S : x <= y
       IN << m, m >> \o SortedSeq_Twice(S \ {m})

RECURSIVE SortedSeq(_)
SortedSeq(S) ==
  IF S = {} THEN << >>
  ELSE LET m == CHOOSE x \in S : \A y \in S : x <= y
       IN << m >> \o SortedSeq(S \ {m})

\* The ids of the activities of the remote listing (0 marks an item without id).
ListedIds == { listing[i].id : i \in 1..Len(listing) } \ {0}

\* Page p of the listing, as the remote answers ?per_page=..&page=p.
PageOf(p) ==
  SubSeq(listing, (p - 1) * per_page + 1, Min(p * per_page, Len(listing)))

\* ------------------------------------------------------------------ redis_client.py
get_activity(act, activity_id) ==
  IF activity_id \in DOMAIN act THEN act[activity_id] ELSE None

\* (mutant: the key is built with the prefix of the gear namespace)
set_activity_GearKey(store, activity_id, activity_data) ==
  IF ~Served(store.left, 1)
  THEN [store EXCEPT !.raised = TRUE]
  ELSE [store EXCEPT !.gear = Put(@, activity_id, activity_data),
                     !.left = After(@, 1)]

\* store is the db the client talks to (activity, index, gear) with left
\* (commands the server still answers) and raised: SET writes the key, then ZADD the sorted set when the payload has a
\* (truthy) updated_at; a command the server does not answer raises and the
\* commands before it stay done.
set_activity(store, activity_id, activity_data) ==
  IF ~Served(store.left, 1)
  THEN [store EXCEPT !.raised = TRUE]
  ELSE LET s1 == [store EXCEPT
                    !.activity = Put(@, activity_id, activity_data),
                    !.left = After(@, 1)]
       IN IF activity_data.updated_at = 0
          THEN s1
          ELSE IF ~Served(s1.left, 1)
          THEN [s1 EXCEPT !.raised = TRUE]
          ELSE [s1 EXCEPT
                  !.index = Put(@, activity_id, activity_data.updated_at),
                  !.left = After(@, 1)]

\* The names of the keys activity:<id> and gear:<id> of the redis db, as
\* <<namespace, id>> (the sorted set activities:updated_at is one more key,
\* which the pattern activity:* does not match).
RedisKeys(act, g) ==
  { << "activity", id >> : id \in DOMAIN act } \cup { << "gear", id >> : id \in DOMAIN g }

\* (mutant: the KEYS pattern matches the keys of every namespace)
get_all_activity_ids_AnyKey(keys) == { k[2] : k \in keys }

\* KEYS activity:* and the id parsed from each name (49-59).
get_all_activity_ids(keys) == { k[2] : k \in { k \in keys : k[1] = "activity" } }

\* (mutant: the seeding from the cache forgets every gear id)
get_gear_ids_from_cache_NoSeed(act, keys) == {}

\* (mutant: only the newest cached activity is read)
get_gear_ids_from_cache_Newest(act, keys) ==
  { get_activity(act, i).gear_id :
      i \in { i \in get_all_activity_ids(keys) :
                \A j \in get_all_activity_ids(keys) : j <= i } } \ {0}

get_gear_ids_from_cache(act, keys) ==
  { get_activity(act, i).gear_id :
      i \in { i \in get_all_activity_ids(keys) : get_activity(act, i) # None } } \ {0}

\* (mutant: the gear key is never found)
get_gear_Miss(g, gear_id) == None

get_gear(g, gear_id) == IF gear_id \in DOMAIN g THEN g[gear_id] ELSE None

set_gear(g, gear_id, gear_data) == Put(g, gear_id, gear_data)

\* ------------------------------------------------------------------ pagination
\* (mutant: every listed item is treated as new and written again)
IsNew_Always(rc, cached_activity) == TRUE

\* get_all_shoes.py 259-265: an item is new unless the cache holds it.
\* (mutant: no item is treated as new)
IsNew_Never(rc, cached_activity) == FALSE

IsNew(rc, cached_activity) == ~(rc /\ cached_activity # None)

\* get_all_shoes.py 252, 260-265: all_cached_on_page drops on a cache miss.
AllCachedOnPage(all_cached, rc, cached_activity) ==
  all_cached /\ ~(rc /\ cached_activity = None)

\* (mutant: an item without id is processed like any other)
HasId_Always(a) == TRUE

\* activity.get('id') is truthy (254-256); 0 stands for a missing, null or
\* zero id.
HasId(a) == a.id # 0

\* The for loop over one page (253-276).  st carries what the loop updates:
\* the redis db (activity, index, gear), gear_ids, new_activities_count,
\* all_cached_on_page, the ids handed to set_activity, the commands the redis
\* server still answers, and raised: a redis command raised, which ends the
\* loop where it stands (the exception is no RequestException, 295).
RECURSIVE ProcessActivities(_, _, _)
ProcessActivities(activities, rc, st) ==
  IF activities = << >> \/ st.raised THEN st
  ELSE LET a == Head(activities)
           got == ~rc \/ Served(st.left, 1)
           cached_activity == get_activity(st.activity, a.id)
           is_new == IsNew(rc, cached_activity)
           s0 == [st EXCEPT
                    !.left = IF rc THEN After(@, 1) ELSE @,
                    !.count = IF is_new THEN @ + 1 ELSE @,
                    !.all_cached = AllCachedOnPage(@, rc, cached_activity),
                    !.written = IF is_new /\ rc THEN @ \cup {a.id} ELSE @]
           s1 == IF is_new /\ rc THEN set_activity(s0, a.id, a) ELSE s0
       IN IF ~HasId(a)
          THEN ProcessActivities(Tail(activities), rc, st)
          ELSE IF ~got
          THEN [st EXCEPT !.raised = TRUE]
          ELSE IF s1.raised
          THEN s1
          ELSE ProcessActivities(Tail(activities), rc,
                 [s1 EXCEPT !.gear_ids = IF a.gear_id # 0
                                         THEN @ \cup {a.gear_id}
                                         ELSE @])

\* (mutant: the early-stop test is missing, pagination goes on to a short page)
EarlyStop_Never(rc, cached_ids, all_cached, n) == FALSE

\* (mutant: the early stop does not look at all_cached_on_page)
EarlyStop_AnyPage(rc, cached_ids, all_cached, n) ==
  rc /\ cached_ids # {} /\ n > 0

\* get_all_shoes.py 285: the early-stop test after a page.
EarlyStop(rc, cached_ids, all_cached, n) ==
  rc /\ cached_ids # {} /\ all_cached /\ n > 0

\* (mutant: a transport error does not end the loop, the next page is tried)
PaginationStop_SkipFailedPage(resp, n, early) ==
  CASE resp = "exc" -> "none"
    [] resp = "401" -> "401"
    [] n = 0 -> "empty"
    [] early -> "early"
    [] n < per_page -> "short"
    [] OTHER -> "none"

\* Why the while loop of 237-297 ends after this answer, "none" when it goes on.
\* resp is the answer to the page request, n the length of the page.
\* (mutant: an empty page does not end the loop)
PaginationStop_PastEmpty(resp, n, early) ==
  CASE resp = "exc" -> "exc"
    [] resp = "401" -> "401"
    [] n > 0 /\ early -> "early"
    [] n > 0 /\ n < per_page -> "short"
    [] OTHER -> "none"

\* (mutant: a page shorter than per_page does not end the loop)
PaginationStop_PastShort(resp, n, early) ==
  CASE resp = "exc" -> "exc"
    [] resp = "401" -> "401"
    [] n = 0 -> "empty"
    [] early -> "early"
    [] OTHER -> "none"

PaginationStop(resp, n, early) ==
  CASE resp = "exc" -> "exc"
    [] resp = "401" -> "401"
    [] n = 0 -> "empty"
    [] early -> "early"
    [] n < per_page -> "short"
    [] OTHER -> "none"

\* (mutant: the except clause of the loop catches every Exception)
LoopCatches_Exception(kind) == TRUE

\* get_all_shoes.py 295: the except clause of the while loop catches the
\* exceptions of requests ("exc") only; one raised by redis passes through.
LoopCatches(kind) == kind = "exc"

\* The answers the remote can give to a request carrying token tok: a transport
\* or HTTP error at any time, 401 for a token it does not accept, data otherwise.
Answers(tok) == {"exc"} \cup {IF tok = validTok /\ tok # 0 THEN "ok" ELSE "401"}

\* ------------------------------------------------------------------ gear detail
\* (mutant: the fetched record is returned but not stored)
gear_response_NoStore(rc, g, gear_id, resp, n) ==
  IF resp # "ok"
  THEN [data |-> None, gear |-> g, requested |-> TRUE, raised |-> FALSE, left |-> n]
  ELSE [data |-> [id |-> gear_id, distance |-> remoteGear[gear_id]], gear |-> g,
        requested |-> TRUE, raised |-> FALSE, left |-> n]

\* (mutant: a 404 yields an empty record instead of None)
gear_response_404Record(rc, g, gear_id, resp, n) ==
  IF resp = "404"
  THEN [data |-> [id |-> gear_id, distance |-> 0], gear |-> g,
        requested |-> TRUE, raised |-> FALSE, left |-> n]
  ELSE IF resp # "ok"
  THEN [data |-> None, gear |-> g, requested |-> TRUE, raised |-> FALSE, left |-> n]
  ELSE [data |-> [id |-> gear_id, distance |-> remoteGear[gear_id]],
        gear |-> IF rc
                 THEN set_gear(g, gear_id, [id |-> gear_id, distance |-> remoteGear[gear_id]])
                 ELSE g,
        requested |-> TRUE, raised |-> FALSE,
        left |-> IF rc THEN After(n, 1) ELSE n]

\* (mutant: a failed request leaves a placeholder record in the cache)
gear_response_StoreFailure(rc, g, gear_id, resp, n) ==
  IF resp # "ok"
  THEN [data |-> None,
        gear |-> IF rc THEN set_gear(g, gear_id, [id |-> gear_id, distance |-> 0]) ELSE g,
        requested |-> TRUE, raised |-> FALSE, left |-> n]
  ELSE [data |-> [id |-> gear_id, distance |-> remoteGear[gear_id]],
        gear |-> IF rc
                 THEN set_gear(g, gear_id, [id |-> gear_id, distance |-> remoteGear[gear_id]])
                 ELSE g,
        requested |-> TRUE, raised |-> FALSE,
        left |-> IF rc THEN After(n, 1) ELSE n]

\* get_gear_details after the cache lookup (317-341): the remote request was
\* answered resp.  The result is [data, gear, requested, raised, left]: what is
\* returned, the gear cache, whether a remote request was made, whether a redis
\* command raised, and the commands the redis server still answers (n before).
gear_response(rc, g, gear_id, resp, n) ==
  LET gear_data == [id |-> gear_id, distance |-> remoteGear[gear_id]]
  IN IF resp # "ok"
     THEN [data |-> None, gear |-> g, requested |-> TRUE, raised |-> FALSE, left |-> n]
     ELSE IF rc /\ ~Served(n, 1)
     THEN [data |-> None, gear |-> g, requested |-> TRUE, raised |-> TRUE, left |-> n]
     ELSE [data |-> gear_data,
           gear |-> IF rc THEN set_gear(g, gear_id, gear_data) ELSE g,
           requested |-> TRUE,
           raised |-> FALSE,
           left |-> IF rc THEN After(n, 1) ELSE n]

\* (mutant: the cache lookup is skipped, every resolution asks the remote)
get_gear_details_Refetch(rc, g, gear_id, resp, n) ==
  gear_response(rc, g, gear_id, resp, n)

\* get_gear_details (309-341): the cache lookup first, the remote otherwise.
get_gear_details(rc, g, gear_id, resp, n) ==
  IF rc /\ ~Served(n, 1)
  THEN [data |-> None, gear |-> g, requested |-> FALSE, raised |-> TRUE, left |-> n]
  ELSE LET cached_gear == IF rc THEN get_gear(g, gear_id) ELSE None
           n1 == IF rc THEN After(n, 1) ELSE n
       IN IF cached_gear # None
          THEN [data |-> cached_gear, gear |-> g, requested |-> FALSE,
                raised |-> FALSE, left |-> n1]
          ELSE gear_response(rc, g, gear_id, resp, n1)

\* The answers to GET /gear/<id>: 404 for a gear the remote does not know.
GearAnswers(tok, gear_id) ==
  {"exc"} \cup {IF tok # validTok \/ tok = 0 THEN "401"
                ELSE IF remoteGear[gear_id] = NotFound THEN "404" ELSE "ok"}

\* get_all_shoes.py 375-397: a summary is appended for a gear that resolved.
\* round(num / den, 2) of get_all_shoes.py 386-387, in hundredths: the
\* nearest hundredth, an exact tie going to the even one.  (On a float the
\* tie is decided by the binary value of the quotient; no distance of this
\* model is on a tie.)
Round2(num, den) ==
  LET q == (100 * num) \div den
      r == (100 * num) % den
  IN  IF 2 * r > den \/ (2 * r = den /\ q % 2 = 1) THEN q + 1 ELSE q

\* distance_meters / 1000 (377).
MetersPerKm == 1000

\* distance_meters / 1609.34 (378), the divisor in hundredths of a metre.
CentimetersPerMile == 160934

shoe_info_MilesWhole(gear_data) ==
  [id |-> gear_data.id, distance_meters |-> gear_data.distance,
   distance_km |-> Round2(gear_data.distance, MetersPerKm),
   distance_miles |-> Round2(gear_data.distance, 1609)]

\* The summary of one gear (376-392); distance_km and distance_miles are in
\* hundredths of a kilometre and of a mile.
shoe_info(gear_data) ==
  [id |-> gear_data.id, distance_meters |-> gear_data.distance,
   distance_km |-> Round2(gear_data.distance, MetersPerKm),
   distance_miles |-> Round2(100 * gear_data.distance, CentimetersPerMile)]

\* (mutant: the guard on gear_data is missing, a failed gear gets a summary too)
AppendSummary_Unguarded(shoes, gear_data) ==
  Append(shoes, IF gear_data # None
                THEN shoe_info(gear_data)
                ELSE [id |-> 0, distance_meters |-> 0,
                      distance_km |-> 0, distance_miles |-> 0])

AppendSummary(shoes, gear_data) ==
  IF gear_data # None THEN Append(shoes, shoe_info(gear_data)) ELSE shoes

\* ------------------------------------------------------------------ credential
\* (mutant: the probe and refresh are tried whatever the configuration holds)
RefreshPossible_Always(cfg) == TRUE

\* main 591 / app.py 58: a refresh needs a refresh token and the client identity.
RefreshPossible(cfg) == cfg.refresh_token # 0 /\ cfg.client

\* (mutant: the test for 'access_token' in the answer is missing)
RefreshSucceeded_AnyAnswer(token_data) == token_data # None

\* main 599 / app.py 69: the exchange succeeded.
RefreshSucceeded(token_data) ==
  token_data # None /\ token_data.access_token # 0

\* (mutant: the run keeps the token it started with)
TokenAfterRefresh_Old(old, token_data) == old

\* main 600 / app.py 74: the token the rest of the run uses after a refresh.
TokenAfterRefresh(old, token_data) == token_data.access_token

\* main 601-604 / app.py 70-73: the configuration saved after a refresh.
ConfigAfterRefresh(cfg, token_data) ==
  [ cfg EXCEPT !.access_token = token_data.access_token,
               !.refresh_token = IF token_data.refresh_token # 0
                                 THEN token_data.refresh_token
                                 ELSE @ ]

\* What the token endpoint can answer: None stands for a non-200 answer or a
\* transport error (refresh_access_token 181-189); access_token = 0 for a body
\* without that key; refresh_token = 0 for a body without that key.
TokenAnswers(old) ==
  {None} \cup
  { [access_token |-> a, refresh_token |-> r] :
      a \in (Tokens \ {old}) \cup {0}, r \in {0} \cup Tokens }

\* ------------------------------------------------------------------ observations
NoObs ==
  [ startValid |-> TRUE,    \* the remote accepted the stored token at the start
    probe |-> "none",       \* answer to the token probe
    refreshCalls |-> 0,     \* calls of refresh_access_token
    newTok |-> 0,           \* access token the token endpoint answered (0: none)
    listReqs |-> << >>,     \* page numbers of the listing requests, in order
    listAns |-> << >>,      \* the answers to them: "ok", "401", "exc"
    gearReqs |-> << >>,     \* gear ids of the remote detail requests, in order
    resolved |-> << >>,     \* gear ids get_gear_details was called with, in order
    usedTok |-> {},         \* tokens carried by listing and gear requests
    written |-> {},         \* activity ids handed to set_activity
    stop |-> "none",        \* why pagination ended
    gearFailed |-> {},      \* gear ids whose detail request was not answered with data
    cacheError |-> "none",  \* where a redis command raised: "snapshot", "seed",
                            \* "activity", "gear"
    errors |-> 0 ]          \* requests answered with 401 or a transport error

\* runs: clean full cycles in a row (capped at 2) with no change of the remote
\* or of the persisted state by anyone else in between; ids, shoes: the cached
\* activity ids and the summaries at the end of the latest of them; prevIds,
\* prevShoes: those of the one before.
NoLast ==
  [runs |-> 0, ids |-> {}, shoes |-> << >>, prevIds |-> {}, prevShoes |-> << >>]

\* ------------------------------------------------------------------ the run
ResetListVars ==
  /\ cached_activity_ids' = {}
  /\ page' = 1
  /\ gear_ids' = {}
  /\ new_activities_count' = 0

\* The run is over: this is what the caller gets.  A run counts as a clean full
\* cycle when it used the cache and no request of it failed.
Finish(result, shoes, o, ids) ==
  /\ pc' = result
  /\ shoes_data' = shoes
  /\ todo' = << >>
  /\ obs' = o
  /\ last' = IF result = "returned" /\ redis_client /\ o.errors = 0
             THEN [ runs |-> Min(last.runs + 1, 2), ids |-> ids, shoes |-> shoes,
                    prevIds |-> last.ids, prevShoes |-> last.shoes ]
             ELSE NoLast

\* (mutant: a transport error during pagination is raised to the caller)
AfterPagination_Raise(ids, o, act) ==
  IF o.stop = "exc" \/ ids = {}
  THEN Finish(IF o.stop = "exc" THEN "failed" ELSE "returned", << >>, o, DOMAIN act)
  ELSE /\ pc' = "gear"
       /\ todo' = SortedSeq(ids)
       /\ shoes_data' = << >>
       /\ obs' = o
       /\ UNCHANGED last

\* (mutant: a 401 on a listing request is raised to the caller)
AfterPagination_Raise401(ids, o, act) ==
  IF o.stop = "401" \/ ids = {}
  THEN Finish(IF o.stop = "401" THEN "failed" ELSE "returned", << >>, o, DOMAIN act)
  ELSE /\ pc' = "gear"
       /\ todo' = SortedSeq(ids)
       /\ shoes_data' = << >>
       /\ obs' = o
       /\ UNCHANGED last

\* get_all_shoes_with_distances 351-362 once pagination is over.
AfterPagination(ids, o, act) ==
  IF ids = {}
  THEN Finish("returned", << >>, o, DOMAIN act)
  ELSE /\ pc' = "gear"
       /\ todo' = SortedSeq(ids)
       /\ shoes_data' = << >>
       /\ obs' = o
       /\ UNCHANGED last

\* The largest score that datetime.fromtimestamp (213) converts, on the scale
\* of the model's timestamps: the listing's own updated_at values are below
\* it, a timestamp past year 9999 (seconds sent as milliseconds, +inf) is
\* above it and makes the conversion raise.
MaxTimestamp == MaxAct + 1

fromtimestamp_raises(t) == t > MaxTimestamp

\* redis_client.py 61-66: the highest score of the time-ordered index; None
\* (here 0: the caller tests its truthiness only) when the index is empty.
get_latest_activity_update_time(index) ==
  IF DOMAIN index = {}
  THEN 0
  ELSE CHOOSE t \in { index[i] : i \in DOMAIN index } :
         \A i \in DOMAIN index : index[i] <= t

\* get_all_gear_ids_from_activities 203-216: the two reads of the cache and
\* the message about them, in one try.  An exception of either read or of the
\* conversion of latest_update_time for the message is caught and rebinds the
\* function's redis_client to None; cached_activity_ids keeps what the first
\* read returned.  n is the number of commands the connection still answers.
Snapshot(rc, n, keys, index) ==
  LET ids == IF rc /\ Served(n, 1) THEN get_all_activity_ids(keys) ELSE {}
      read == rc /\ Served(n, 2)
      latest_update_time == IF read THEN get_latest_activity_update_time(index) ELSE 0
      shown == read /\ ids # {} /\ latest_update_time # 0
      rc1 == read /\ ~(shown /\ fromtimestamp_raises(latest_update_time))
  IN  [ cached_activity_ids |-> ids,
        latest_update_time |-> latest_update_time,
        redis_client |-> rc1,
        left |-> IF ~rc THEN n ELSE IF read THEN After(n, 2) ELSE 0 ]

\* get_all_gear_ids_from_activities 198-235 with token tok and cache client rc,
\* when the redis server answers n more commands and o is observed so far.
\* The snapshot (KEYS, ZRANGE) is read inside try/except: when it raises, the
\* run goes on without the cache.  The seeding of gear_ids (KEYS, one GET for
\* each cached activity) is not: when it raises, the run ends there.
BeginPagination(tok, rc, n, o) ==
  LET keys == RedisKeys(activity, gear)
      snap == Snapshot(rc, n, keys, updated_at_index)
      ids == snap.cached_activity_ids
      rc1 == snap.redis_client
      n1 == snap.left
      seed == rc1 /\ ids # {}
      cmds == 1 + Cardinality(ids)
      raised == seed /\ ~Served(n1, cmds)
      o1 == [o EXCEPT !.cacheError = IF rc /\ ~rc1 THEN "snapshot"
                                     ELSE IF raised THEN "seed"
                                     ELSE @]
  IN /\ access_token' = tok
     /\ redis_client' = rc1
     /\ cached_activity_ids' = ids
     /\ page' = 1
     /\ new_activities_count' = 0
     /\ IF raised
        THEN /\ gear_ids' = {}
             /\ redis_left' = 0
             /\ Finish("failed", << >>, o1, DOMAIN activity)
        ELSE /\ gear_ids' = IF seed THEN get_gear_ids_from_cache(activity, keys) ELSE {}
             /\ redis_left' = IF seed THEN After(n1, cmds) ELSE n1
             /\ pc' = "listing"
             /\ todo' = << >>
             /\ shoes_data' = << >>
             /\ obs' = o1
             /\ UNCHANGED last

\* main 532-591: the configuration is loaded, the cache client is made (it is
\* None for --no-redis and when the PING of its constructor raises), and either
\* the probe follows or, with no refresh possible, pagination starts with the
\* stored token.
StartCycle ==
  /\ pc = "idle"
  /\ UNCHANGED << put_ids, flowVars, remoteVars, config, cacheVars >>
  /\ IF config.access_token = 0
     THEN /\ Finish("failed", << >>, NoObs, DOMAIN activity)
          /\ UNCHANGED << redis_left, access_token, redis_client, shoes_redis_client,
                          listVars >>
     ELSE \E use_redis \in BOOLEAN :
            LET rc == use_redis /\ Served(redis_left, 1)
                n == IF rc THEN After(redis_left, 1) ELSE redis_left
                o == [NoObs EXCEPT !.startValid = (config.access_token = validTok)]
            IN /\ shoes_redis_client' = rc
               /\ IF RefreshPossible(config)
                  THEN /\ pc' = "probe"
                       /\ access_token' = config.access_token
                       /\ redis_client' = rc
                       /\ redis_left' = n
                       /\ obs' = o
                       /\ UNCHANGED << listVars, todo, shoes_data, last >>
                  ELSE BeginPagination(config.access_token, rc, n,
                                       [o EXCEPT !.probe = "skipped"])

\* main 594-596 / app.py 63-66: GET /athlete with the stored token.
Probe ==
  /\ pc = "probe"
  /\ UNCHANGED << put_ids, flowVars, remoteVars, config, cacheVars, shoes_redis_client >>
  /\ \E resp \in Answers(access_token) :
       CASE resp = "exc" ->
              /\ Finish("failed", << >>, [obs EXCEPT !.probe = "exc"], DOMAIN activity)
              /\ UNCHANGED << redis_left, access_token, redis_client, listVars >>
         [] resp = "401" ->
              /\ pc' = "refresh"
              /\ obs' = [obs EXCEPT !.probe = "401"]
              /\ UNCHANGED << redis_left, access_token, redis_client, listVars, todo,
                              shoes_data, last >>
         [] OTHER ->
              BeginPagination(access_token, redis_client, redis_left,
                              [obs EXCEPT !.probe = "200"])

\* main 598-608 / app.py 68-76: one call of refresh_access_token.
Refresh ==
  /\ pc = "refresh"
  /\ UNCHANGED << put_ids, flowVars, listing, remoteGear, cacheVars, shoes_redis_client >>
  /\ \E token_data \in TokenAnswers(access_token) :
       LET o == [obs EXCEPT !.refreshCalls = @ + 1,
                            !.newTok = IF token_data # None
                                       THEN token_data.access_token
                                       ELSE 0]
       IN /\ validTok' = IF token_data # None /\ token_data.access_token # 0
                         THEN token_data.access_token
                         ELSE validTok
          /\ IF RefreshSucceeded(token_data)
             THEN /\ config' = ConfigAfterRefresh(config, token_data)
                  /\ BeginPagination(TokenAfterRefresh(access_token, token_data),
                                     redis_client, redis_left, o)
             ELSE /\ Finish("failed", << >>, o, DOMAIN activity)
                  /\ UNCHANGED << redis_left, config, access_token, redis_client,
                                  listVars >>

\* One iteration of the while loop of get_all_gear_ids_from_activities (237-297)
\* and, when the loop ends, the return to get_all_shoes_with_distances.
ListPage ==
  /\ pc = "listing"
  /\ UNCHANGED << flowVars, remoteVars, config, access_token, redis_client,
                  shoes_redis_client,
                  cached_activity_ids >>
  /\ \E resp \in Answers(access_token) :
       LET activities == IF resp = "ok" THEN PageOf(page) ELSE << >>
           st == ProcessActivities(activities, redis_client,
                   [ activity |-> activity, index |-> updated_at_index,
                     gear |-> gear, gear_ids |-> gear_ids, count |-> new_activities_count,
                     all_cached |-> TRUE, written |-> {},
                     left |-> redis_left, raised |-> FALSE ])
           early == EarlyStop(redis_client, cached_activity_ids, st.all_cached,
                              Len(activities))
           stop == IF st.raised
                   THEN "raised"
                   ELSE PaginationStop(resp, Len(activities), early)
           o == [obs EXCEPT !.listReqs = Append(@, page),
                            !.listAns = Append(@, resp),
                            !.usedTok = @ \cup {access_token},
                            !.written = @ \cup st.written,
                            !.stop = stop,
                            !.cacheError = IF st.raised THEN "activity" ELSE @,
                            !.errors = IF resp = "ok" THEN @ ELSE @ + 1]
       IN /\ activity' = st.activity
          /\ updated_at_index' = st.index
          /\ gear' = st.gear
          /\ redis_left' = st.left
          /\ put_ids' = put_ids \cup st.written
          /\ gear_ids' = st.gear_ids
          /\ new_activities_count' = st.count
          /\ IF st.raised /\ ~LoopCatches("raised")
             THEN /\ page' = page
                  /\ Finish("failed", << >>, o, DOMAIN st.activity)
             ELSE IF stop = "none"
             THEN /\ page' = page + 1
                  /\ obs' = o
                  /\ UNCHANGED << pc, todo, shoes_data, last >>
             ELSE /\ page' = page
                  /\ AfterPagination(st.gear_ids, o, st.activity)

\* One iteration of the for loop of get_all_shoes_with_distances (362-397),
\* get_gear_details included, and the return after the last one (399-402).
\* With a cache client the loop reads the gear key itself (366) before
\* get_gear_details reads it again (313).
GearStep ==
  /\ pc = "gear"
  /\ todo # << >>
  /\ UNCHANGED << put_ids, flowVars, remoteVars, config, activity, updated_at_index, access_token,
                  redis_client, shoes_redis_client, listVars >>
  /\ LET gear_id == Head(todo)
         rc == shoes_redis_client
         peeked == ~rc \/ Served(redis_left, 1)
         n == IF rc /\ peeked THEN After(redis_left, 1) ELSE redis_left
         readable == ~rc \/ Served(redis_left, 2)
         hit == rc /\ readable /\ get_gear(gear, gear_id) # None
     IN \E resp \in IF hit THEN {"hit"}
                    ELSE IF ~readable THEN {"none"}
                    ELSE GearAnswers(access_token, gear_id) :
          LET r == IF peeked
                   THEN get_gear_details(rc, gear, gear_id, resp, n)
                   ELSE [data |-> None, gear |-> gear, requested |-> FALSE,
                         raised |-> TRUE, left |-> redis_left]
              shoes == AppendSummary(shoes_data, r.data)
              o == [obs EXCEPT
                      !.gearReqs = IF r.requested THEN Append(@, gear_id) ELSE @,
                      !.resolved = IF peeked THEN Append(@, gear_id) ELSE @,
                      !.usedTok = IF r.requested THEN @ \cup {access_token} ELSE @,
                      !.gearFailed = IF resp \in {"exc", "401", "404"}
                                     THEN @ \cup {gear_id}
                                     ELSE @,
                      !.cacheError = IF r.raised THEN "gear" ELSE @,
                      !.errors = IF resp \in {"exc", "401"} THEN @ + 1 ELSE @]
          IN /\ gear' = r.gear
             /\ redis_left' = r.left
             /\ IF r.raised
                THEN Finish("failed", << >>, o, DOMAIN activity)
                ELSE IF Tail(todo) = << >>
                THEN Finish("returned", shoes, o, DOMAIN activity)
                ELSE /\ todo' = Tail(todo)
                     /\ shoes_data' = shoes
                     /\ obs' = o
                     /\ UNCHANGED << pc, last >>

\* The process ends; the next run starts from the persisted state alone.
Exit ==
  /\ pc \in {"returned", "failed"}
  /\ pc' = "idle"
  /\ access_token' = 0
  /\ redis_client' = FALSE
  /\ shoes_redis_client' = FALSE
  /\ ResetListVars
  /\ todo' = << >>
  /\ shoes_data' = << >>
  /\ obs' = NoObs
  /\ UNCHANGED << put_ids, flowVars, remoteVars, config, cacheVars, redis_left, last >>

\* ------------------------------------------------------------------ environment
\* The athlete records an activity: the remote prepends it to the listing
\* (newest first).  Ids grow with creation; updated_at, when present, is the
\* creation time, which grows with the id.
NextId == Cardinality(ListedIds) + 1

NewActivities ==
  { [id |-> NextId, gear_id |-> g, updated_at |-> NextId] : g \in {0} \cup GearIds }

RemoteAppend ==
  /\ pc = "idle"
  /\ Len(listing) < MaxAct
  /\ \E a \in NewActivities : listing' = << a >> \o listing
  /\ last' = NoLast
  /\ UNCHANGED << put_ids, flowVars, redis_left, remoteGear, validTok, config, cacheVars, pc, access_token,
                  redis_client, shoes_redis_client, listVars, todo, shoes_data, obs >>

\* The athlete records an activity whose updated_at the listing reports on
\* another scale (milliseconds for seconds): a number past MaxTimestamp.
RemoteAppendFar ==
  /\ pc = "idle"
  /\ Len(listing) < MaxAct
  /\ \E a \in NewActivities :
       listing' = << [a EXCEPT !.updated_at = MaxTimestamp + 1] >> \o listing
  /\ last' = NoLast
  /\ UNCHANGED << put_ids, flowVars, redis_left, remoteGear, validTok, config, cacheVars, pc, access_token,
                  redis_client, shoes_redis_client, listVars, todo, shoes_data, obs >>

\* The listing gains an item that carries no id (and possibly a gear_id).
RemoteAppendIdless ==
  /\ pc = "idle"
  /\ Len(listing) < MaxAct
  /\ \E a \in NewActivities : listing' = << [a EXCEPT !.id = 0] >> \o listing
  /\ last' = NoLast
  /\ UNCHANGED << put_ids, flowVars, redis_left, remoteGear, validTok, config, cacheVars, pc, access_token,
                  redis_client, shoes_redis_client, listVars, todo, shoes_data, obs >>

\* The remote stops accepting the current access token (it expires), at any time.
RemoteExpire ==
  /\ validTok # 0
  /\ validTok' = 0
  /\ last' = NoLast
  /\ UNCHANGED << put_ids, flowVars, redis_left, listing, remoteGear, config, cacheVars, pc, access_token,
                  redis_client, shoes_redis_client, listVars, todo, shoes_data, obs >>

\* main --authorize (496-530): the OAuth handshake stores a fresh token pair and
\* the client identity; refresh_token may come back empty.
Authorize ==
  /\ pc = "idle"
  /\ \E t \in Tokens, r \in {0} \cup Tokens :
       /\ config' = [access_token |-> t, refresh_token |-> r, client |-> TRUE]
       /\ validTok' = t
  /\ last' = NoLast
  /\ UNCHANGED << put_ids, flowVars, redis_left, listing, remoteGear, cacheVars, pc, access_token,
                  redis_client, shoes_redis_client, listVars, todo, shoes_data, obs >>

\* main --clear-cache (564-570) -> StravaRedisClient.clear_all (106-109): the
\* PING of the constructor, then FLUSHDB.
ClearCache ==
  /\ pc = "idle"
  /\ Served(redis_left, 2)
  /\ redis_left' = After(redis_left, 2)
  /\ activity' = Empty
  /\ updated_at_index' = Empty
  /\ gear' = Empty
  /\ put_ids' = {}
  /\ last' = NoLast
  /\ UNCHANGED << flowVars, remoteVars, config, pc, access_token, redis_client,
                  shoes_redis_client, listVars,
                  todo, shoes_data, obs >>

\* The remote changes the gear of an activity it already lists (the listing
\* then carries a gear_id that differs from the one a cache may hold).
RemoteEdit ==
  /\ pc = "idle"
  /\ \E i \in 1..Len(listing) :
       \E g \in ({0} \cup GearIds) \ {listing[i].gear_id} :
         listing' = [listing EXCEPT ![i].gear_id = g]
  /\ last' = NoLast
  /\ UNCHANGED << put_ids, flowVars, redis_left, remoteGear, validTok, config, cacheVars, pc, access_token,
                  redis_client, shoes_redis_client, listVars, todo, shoes_data, obs >>

\* The distance of each gear when the model starts (gear 1 may be unknown to
\* the remote instead), in meters: one mile, a hundred miles.
InitialDistance(g) == IF g = 1 THEN 1609 ELSE 160934

\* The athlete runs a mile with a gear: the remote adds it to the gear's
\* distance.
RemoteGearGrow ==
  /\ pc = "idle"
  /\ \E g \in GearIds :
       /\ remoteGear[g] # NotFound
       /\ remoteGear[g] < InitialDistance(g) + 1609 * MaxRuns
       /\ remoteGear' = [remoteGear EXCEPT ![g] = @ + 1609]
  /\ last' = NoLast
  /\ UNCHANGED << put_ids, flowVars, redis_left, listing, validTok, config, cacheVars, pc,
                  access_token, redis_client, shoes_redis_client, listVars, todo,
                  shoes_data, obs >>

\* ------------------------------------------------------------------ flows
\* A flow that is not inside get_gear_details.
IdleFlow ==
  [pc |-> "idle", gear_id |-> 0, requests |-> 0, answer |-> "none", result |-> None]

runVars ==
  << pc, access_token, redis_client, shoes_redis_client, listVars, todo, shoes_data,
     put_ids, obs, last >>

\* get_gear_details 311-319: a flow enters with a gear id and a cache client,
\* reads the gear key, and returns the cached record or sends the request.
ResolveLookup ==
  \E p \in Resolvers, gear_id \in GearIds :
    /\ pc = "idle"
    /\ flows[p].pc = "idle"
    /\ Served(redis_left, 1)
    /\ redis_left' = After(redis_left, 1)
    /\ LET cached_gear == get_gear(gear, gear_id)
       IN flows' = [flows EXCEPT ![p] =
                      IF cached_gear # None
                      THEN [pc |-> "done", gear_id |-> gear_id, requests |-> 0,
                            answer |-> "hit", result |-> cached_gear]
                      ELSE [pc |-> "fetch", gear_id |-> gear_id, requests |-> 1,
                            answer |-> "none", result |-> None]]
    /\ UNCHANGED << remoteVars, config, cacheVars, gear_writes, runVars >>

\* get_gear_details 320-341: the request of a flow is answered.  The flows
\* carry the stored access token.
ResolveAnswer ==
  \E p \in Resolvers :
    /\ flows[p].pc = "fetch"
    /\ \E resp \in GearAnswers(config.access_token, flows[p].gear_id) :
         LET r == gear_response(TRUE, gear, flows[p].gear_id, resp, redis_left)
         IN /\ ~r.raised
            /\ gear' = r.gear
            /\ redis_left' = r.left
            /\ gear_writes' = IF resp = "ok"
                              THEN [gear_writes EXCEPT ![flows[p].gear_id] = @ + 1]
                              ELSE gear_writes
            /\ flows' = [flows EXCEPT ![p].pc = "done",
                                      ![p].answer = resp,
                                      ![p].result = r.data]
    /\ UNCHANGED << remoteVars, config, activity, updated_at_index, runVars >>

\* The caller of the flow takes the result.
ResolveReturn ==
  \E p \in Resolvers :
    /\ flows[p].pc = "done"
    /\ flows' = [flows EXCEPT ![p] = IdleFlow]
    /\ UNCHANGED << remoteVars, config, cacheVars, redis_left, gear_writes, runVars >>

\* The connection to the redis server is about to be lost: the server answers
\* k more commands, then every command raises (redis.ConnectionError).
RedisDisconnect ==
  /\ redis_left = Up
  /\ \E k \in 0..MaxCmds : redis_left' = k
  /\ last' = NoLast
  /\ UNCHANGED << put_ids, flowVars, remoteVars, config, cacheVars, pc, access_token,
                  redis_client, shoes_redis_client, listVars, todo, shoes_data, obs >>

\* ------------------------------------------------------------------ specification
\* config.json as --authorize or the user's editor left it, a remote that
\* accepts the stored token, empty caches, no activity yet.
Init ==
  /\ listing = << >>
  /\ remoteGear \in { [g \in GearIds |-> IF g = 1 THEN d ELSE InitialDistance(g)] :
                        d \in {NotFound, InitialDistance(1)} }
  /\ config \in [access_token : {0, 1}, refresh_token : {0, 1}, client : BOOLEAN]
  /\ validTok = 1
  /\ activity = Empty
  /\ updated_at_index = Empty
  /\ gear = Empty
  /\ redis_left = Up
  /\ pc = "idle"
  /\ access_token = 0
  /\ redis_client = FALSE
  /\ shoes_redis_client = FALSE
  /\ cached_activity_ids = {}
  /\ page = 1
  /\ gear_ids = {}
  /\ new_activities_count = 0
  /\ todo = << >>
  /\ shoes_data = << >>
  /\ flows = [p \in Resolvers |-> IdleFlow]
  /\ gear_writes = [g \in GearIds |-> 0]
  /\ put_ids = {}
  /\ obs = NoObs
  /\ last = NoLast

Next ==
  \/ StartCycle
  \/ Probe
  \/ Refresh
  \/ ListPage
  \/ GearStep
  \/ Exit
  \/ RemoteAppend
  \/ RemoteExpire
  \/ Authorize
  \/ ClearCache

Spec == Init /\ [][Next]_vars

\* The sync and resolution phases against a remote that also edits the gear of
\* past activities.  The stored token stays valid and no refresh token is
\* stored, so every run goes from the start straight to pagination.
InitEdit ==
  /\ Init
  /\ config = [access_token |-> 1, refresh_token |-> 0, client |-> TRUE]
  /\ remoteGear[1] # NotFound

NextEdit ==
  \/ StartCycle
  \/ ListPage
  \/ GearStep
  \/ Exit
  \/ RemoteAppend
  \/ RemoteEdit
  \/ ClearCache

SpecEdit == InitEdit /\ [][NextEdit]_vars

\* The sync and resolution phases when every request is answered, with data
\* or with an error, and the process goes on after every answer: a listing
\* step that can be taken is taken, and so is a gear step.
NextLive ==
  \/ StartCycle
  \/ ListPage
  \/ GearStep
  \/ Exit
  \/ RemoteAppend
  \/ ClearCache

SpecLive ==
  /\ InitEdit
  /\ [][NextLive]_vars
  /\ WF_vars(ListPage)
  /\ WF_vars(GearStep)

\* The sync and resolution phases against a listing that also has items
\* without id.
NextIdless ==
  \/ StartCycle
  \/ ListPage
  \/ GearStep
  \/ Exit
  \/ RemoteAppend
  \/ RemoteAppendIdless
  \/ ClearCache

SpecIdless == InitEdit /\ [][NextIdless]_vars

\* The sync and resolution phases against a listing whose updated_at values
\* are on either scale.
NextIndex ==
  \/ StartCycle
  \/ ListPage
  \/ GearStep
  \/ Exit
  \/ RemoteAppend
  \/ RemoteAppendFar

SpecIndex == InitEdit /\ [][NextIndex]_vars

\* The sync and resolution phases on a redis server whose connection can be
\* lost at any command, and then stays lost: the runs that follow find no
\* server and go without the cache.  Credentials as in SpecEdit.
NextFault ==
  \/ StartCycle
  \/ ListPage
  \/ GearStep
  \/ Exit
  \/ RemoteAppend
  \/ ClearCache
  \/ RedisDisconnect

SpecFault == InitEdit /\ [][NextFault]_vars

\* The sync and resolution phases while the gears' distances grow at the
\* remote.  Credentials as in SpecEdit.
NextGear ==
  \/ StartCycle
  \/ ListPage
  \/ GearStep
  \/ Exit
  \/ RemoteAppend
  \/ RemoteGearGrow
  \/ ClearCache

SpecGear == InitEdit /\ [][NextGear]_vars

\* Two flows inside get_gear_details on one redis server, with a stored token
\* the remote accepts until it expires.
InitResolve ==
  /\ Init
  /\ config = [access_token |-> 1, refresh_token |-> 0, client |-> TRUE]

NextResolve ==
  \/ ResolveLookup
  \/ ResolveAnswer
  \/ ResolveReturn
  \/ RemoteExpire

SpecResolve == InitResolve /\ [][NextResolve]_vars

\* The sync and resolution phases against a remote that may not know a gear,
\* may reject the token, or may not answer.
NextGearFail ==
  \/ StartCycle
  \/ ListPage
  \/ GearStep
  \/ Exit
  \/ RemoteAppend
  \/ RemoteExpire
  \/ ClearCache

SpecGearFail == InitResolve /\ [][NextGearFail]_vars

\* ------------------------------------------------------------------ claims
\* The ids listed on the pages after page p (the older activities).
OlderThanPage(p) ==
  { listing[i].id : i \in (p * per_page + 1)..Len(listing) } \ {0}

\* C1 (as claimed): whenever pagination stopped because a page consisted
\* entirely of cached activities, every activity on the later (older) pages of
\* the listing is in the activity cache, whatever the earlier cycles on the
\* same cache were (cycles cut short by a network error or a 401 included).
C1_EarlyStopSound ==
  (pc \in {"gear", "returned"} /\ obs.stop = "early")
    => OlderThanPage(page) \subseteq DOMAIN activity

\* C2: idempotence.  When two full sync cycles run in succession on the cache
\* (both run to their normal return with no failed request, and nothing
\* changes the remote or the persisted state in between), the second ends with
\* the same set of cached activity ids and the same list of gear summaries as
\* the first, and it hands no activity to set_activity.
C2_Idempotent ==
  (pc = "returned" /\ last.runs = 2)
    => /\ DOMAIN activity = last.prevIds
       /\ last.ids = last.prevIds
       /\ shoes_data = last.prevShoes
       /\ last.shoes = last.prevShoes
       /\ obs.written = {}

\* A second clean cycle over a listing of more than one page that stopped
\* early and returned summaries.
C2_Witness ==
  /\ pc = "returned"
  /\ last.runs = 2
  /\ Len(listing) > per_page
  /\ obs.stop = "early"
  /\ Len(shoes_data) = 2

\* The first K pages of the listing hold only activities that were not cached
\* when the cycle started, every later page only activities that were.
FirstPagesNew(K) ==
  /\ \A i \in 1..Len(listing) :
       IF i <= K * per_page
       THEN listing[i].id # 0 /\ listing[i].id \notin cached_activity_ids
       ELSE listing[i].id \in cached_activity_ids

\* The page numbers 1..n in order.
Pages(n) == [i \in 1..n |-> i]

\* C3: early-stop request count.  In a cycle that starts from a non-empty cache
\* and whose listing requests are all answered, if the first K pages are
\* entirely uncached and every later page entirely cached, then pagination
\* issues exactly the K+1 listing requests for pages 1..K+1, for every K >= 0.
C3_RequestCount ==
  \A K \in 0..MaxAct :
    ( /\ pc \in {"gear", "returned"}
      /\ redis_client
      /\ cached_activity_ids # {}
      /\ obs.stop \notin {"exc", "401"}
      /\ FirstPagesNew(K) )
    => obs.listReqs = Pages(K + 1)

\* The case K = 1: a full page of new activities in front of a cached page.
C3_Witness ==
  /\ pc \in {"gear", "returned"}
  /\ redis_client
  /\ cached_activity_ids # {}
  /\ obs.stop = "early"
  /\ FirstPagesNew(1)
  /\ obs.listReqs = << 1, 2 >>

\* C4: cached activity records are stable.  No step other than the bulk cache
\* clear removes or changes the record of an activity id that is in the cache;
\* in particular a listing answer carrying another gear_id for a cached id
\* leaves the cached record, gear_id included, as it was.
C4_CachedStable ==
  [][ \/ ClearCache
      \/ \A id \in DOMAIN activity :
           id \in DOMAIN activity' /\ activity'[id] = activity[id] ]_vars

\* A cycle has processed a page on which a cached activity is listed with a
\* gear_id other than the cached one.
C4_Witness ==
  /\ pc \in {"gear", "returned"}
  /\ redis_client
  /\ obs.stop \in {"early", "short", "empty"}
  /\ \E i \in 1..Len(listing) :
       /\ i <= page * per_page
       /\ listing[i].id \in DOMAIN activity
       /\ activity[listing[i].id].gear_id # listing[i].gear_id

\* The gear ids of the summaries returned.
SummaryIds == { shoes_data[i].id : i \in 1..Len(shoes_data) }

\* C5: partial failure containment.  A gear resolution that fails (404, 401 or
\* transport error) never fails the cycle, and when exactly one of the N
\* identifiers of the working set failed, the cycle returns exactly N-1
\* summaries, one for each identifier that resolved.
C5_PartialFailure ==
  /\ obs.gearFailed # {} => pc \in {"gear", "returned"}
  /\ (pc = "returned" /\ Cardinality(obs.gearFailed) = 1)
       => /\ Len(shoes_data) = Cardinality(gear_ids) - 1
          /\ SummaryIds = gear_ids \ obs.gearFailed

\* Two identifiers, the first failed on a remote request, the second was
\* resolved after it.
C5_Witness ==
  /\ pc = "returned"
  /\ gear_ids = {1, 2}
  /\ obs.gearFailed = {1}
  /\ obs.gearReqs = << 1, 2 >>
  /\ Len(shoes_data) = 1

\* Some listing request of the run failed in transport.
ListingError == \E i \in 1..Len(obs.listAns) : obs.listAns[i] = "exc"

\* C6 (as claimed): a network error on a listing page request aborts the cycle:
\* after it no gear detail request is issued and no normal list of summaries
\* is returned.
C6_ListingErrorAborts ==
  ListingError => (obs.gearReqs = << >> /\ pc \notin {"gear", "returned"})

\* C6 (amended): a network error on a listing page request ends pagination but
\* not the cycle: the run never ends in failure because of it, goes on to
\* resolve the working set gathered so far, and returns normally one summary
\* for every identifier of the working set that resolved.
C6_ListingErrorContinues ==
  ListingError
    => /\ pc \in {"gear", "returned"}
       /\ obs.stop = "exc"
       /\ pc = "returned" => SummaryIds = gear_ids \ obs.gearFailed

\* Page 2 failed, and the run still asked the remote for a gear and returned
\* its summary.
C6_Witness ==
  /\ pc = "returned"
  /\ obs.listAns = << "ok", "exc" >>
  /\ obs.gearReqs # << >>
  /\ shoes_data # << >>

\* C7: when a listing page request fails (transport error or 401), it is the
\* last listing request of the cycle, and every activity handed to
\* set_activity from the earlier pages is still in the cache afterwards.
C7_FailedPage ==
  /\ \A i \in 1..Len(obs.listAns) :
       obs.listAns[i] # "ok" => i = Len(obs.listAns) /\ pc # "listing"
  /\ (\E i \in 1..Len(obs.listAns) : obs.listAns[i] # "ok")
       => obs.written \subseteq DOMAIN activity

\* Page 1 was written to the cache, page 2 failed.
C7_Witness ==
  /\ pc \in {"gear", "returned"}
  /\ obs.listAns = << "ok", "exc" >>
  /\ Cardinality(obs.written) = per_page
  /\ obs.written \subseteq DOMAIN activity

\* C8: credential refresh.  When the probe was answered 401 and the exchange
\* returned an access token, exactly one refresh call was made and every
\* listing and gear detail request of the cycle carries the returned token.
C8_Refreshed ==
  (obs.probe = "401" /\ obs.newTok # 0)
    => /\ obs.refreshCalls = 1
       /\ pc \in {"listing", "gear", "returned"}
       /\ access_token = obs.newTok
       /\ obs.usedTok \subseteq {obs.newTok}

\* A refreshed run that made listing and gear detail requests.
C8_Witness ==
  /\ pc = "returned"
  /\ obs.probe = "401"
  /\ obs.newTok # 0
  /\ obs.listReqs # << >>
  /\ obs.gearReqs # << >>
  /\ obs.usedTok = {obs.newTok}

\* A run that started with a stored token the remote rejects and with no
\* refresh possible (refresh token or client identity missing).
RejectedNoRefresh ==
  /\ pc # "idle"
  /\ config.access_token # 0
  /\ ~obs.startValid
  /\ (config.refresh_token = 0 \/ ~config.client)

\* C9 (as claimed): with a rejected access token and no refresh possible the
\* cycle fails up front and issues no listing or gear request with that token.
C9_RejectedTokenFails ==
  RejectedNoRefresh => (obs.listReqs = << >> /\ obs.gearReqs = << >>)

\* C9 (amended): with a stored access token the remote rejects and no refresh
\* possible, the token is neither probed nor refreshed and the cycle does not
\* fail up front: it goes on with the stored token, issues exactly one listing
\* request (answered 401 or lost in transport, so nothing is written to the
\* cache), then resolves the gear identifiers seeded from the cache, where
\* every remote detail request fails, and returns normally.
C9_RejectedTokenGoesOn ==
  RejectedNoRefresh
    => /\ obs.probe = "skipped"
       /\ obs.refreshCalls = 0
       /\ pc \in {"listing", "gear", "returned"}
       /\ Len(obs.listReqs) <= 1
       /\ pc # "listing" => Len(obs.listReqs) = 1
       /\ \A i \in 1..Len(obs.listAns) : obs.listAns[i] # "ok"
       /\ obs.written = {}
       /\ obs.usedTok \subseteq {config.access_token}
       /\ \A i \in 1..Len(obs.gearReqs) : obs.gearReqs[i] \in obs.gearFailed

\* Such a run: the listing request was answered 401, a gear detail request was
\* sent with the same token, and the run returned.
C9_Witness ==
  /\ RejectedNoRefresh
  /\ pc = "returned"
  /\ obs.listAns = << "401" >>
  /\ obs.gearReqs # << >>
  /\ obs.usedTok = {config.access_token}

\* C10: when the refresh exchange fails (no answer, a non-200 answer, or an
\* answer without access token), it was attempted exactly once, the persisted
\* credential is left as it was, and the run ends in failure without any
\* listing or gear detail request.
C10_RefreshFailed ==
  [][ (obs'.refreshCalls > 0 /\ obs'.newTok = 0)
        => /\ obs'.refreshCalls = 1
           /\ config' = config
           /\ pc' = "failed"
           /\ obs'.listReqs = << >>
           /\ obs'.gearReqs = << >> ]_vars

\* A run that ended in failure after its one refresh call.
C10_Witness ==
  /\ pc = "failed"
  /\ obs.probe = "401"
  /\ obs.refreshCalls = 1
  /\ obs.newTok = 0

\* Some listing request of the run was answered 401.
Listing401 == \E i \in 1..Len(obs.listAns) : obs.listAns[i] = "401"

\* C11 (as claimed): a listing request answered 401 ends the cycle at once in
\* failure: no gear detail request follows and no summaries are returned.
C11_Listing401Fatal ==
  Listing401 => (pc = "failed" /\ obs.gearReqs = << >> /\ shoes_data = << >>)

\* C11 (amended): a listing request answered 401 ends pagination, not the
\* cycle: it is the last listing request, nothing is raised to the caller, the
\* run goes on to resolve the working set gathered so far (from the cache and
\* from the pages before) and returns normally one summary for every
\* identifier of it that resolved.
C11_Listing401EndsPagination ==
  Listing401
    => /\ obs.listAns[Len(obs.listAns)] = "401"
       /\ \A i \in 1..(Len(obs.listAns) - 1) : obs.listAns[i] = "ok"
       /\ pc \in {"gear", "returned"}
       /\ obs.stop = "401"
       /\ pc = "returned" => SummaryIds = gear_ids \ obs.gearFailed

\* The token expired after page 1; page 2 was answered 401, and the run still
\* sent a gear detail request and returned a summary of a cached gear.
C11_Witness ==
  /\ pc = "returned"
  /\ obs.listAns = << "ok", "401" >>
  /\ obs.gearReqs # << >>
  /\ shoes_data # << >>

\* C12 (as claimed): whenever a cache access of the cycle failed, the initial
\* read of the cached ids and latest update time included, the cycle ends in
\* failure (and so issues no remote request after the failing access).
C12_CacheFailureFatal ==
  obs.cacheError # "none"
    => /\ pc # "returned"
       /\ obs.cacheError = "snapshot" => obs.listReqs = << >> /\ obs.gearReqs = << >>

\* The initial read of this run failed: pagination lost its client, the
\* caller still has it.
SnapshotFailed ==
  /\ pc \in {"listing", "gear", "returned", "failed"}
  /\ shoes_redis_client
  /\ ~redis_client

\* C12 (amended): a cache access that fails after the initial read (in the
\* seeding of the gear identifiers, in the page loop, in the gear loop) ends
\* the cycle in failure with no summaries and no remote request after it; a
\* failure of the initial read does not: pagination goes on without the
\* cache, writes no activity, and issues its listing requests; the gear loop
\* that follows still uses the cache client.
C12_CacheFailure ==
  /\ obs.cacheError \in {"seed", "activity", "gear"}
       => pc = "failed" /\ shoes_data = << >>
  /\ obs.cacheError = "seed" => obs.listReqs = << >> /\ obs.gearReqs = << >>
  /\ obs.cacheError = "activity" => obs.gearReqs = << >>
  /\ obs.cacheError = "snapshot" => SnapshotFailed /\ pc # "failed"
  /\ SnapshotFailed
       => /\ obs.cacheError \in {"snapshot", "gear"}
          /\ obs.written = {}
          /\ pc # "listing" => obs.listReqs # << >>

\* The connection was lost in the page loop after an activity was written.
C12_Witness ==
  /\ pc = "failed"
  /\ obs.cacheError = "activity"
  /\ obs.listAns = << "ok" >>
  /\ obs.written # {}

\* The initial read failed, pagination listed a page without the cache, and
\* the first cache access of the gear loop failed.
C12_WitnessSnapshot ==
  /\ pc = "failed"
  /\ SnapshotFailed
  /\ obs.cacheError = "gear"
  /\ obs.listAns = << "ok" >>

\* C13: resolve(gear_id), as the gear loop calls it.  On a cache hit it returns
\* the cached record (the summary is made from it) and issues no remote
\* request; on a miss with a successful remote answer it issues exactly one
\* remote detail request for that identifier, afterwards the gear cache holds
\* exactly the fetched record under that identifier (every other key as it
\* was), and the fetched record is returned.
C13_Resolve ==
  [][ (pc = "gear" /\ todo # << >> /\ todo' # todo)
        => LET gear_id == Head(todo)
               hit == shoes_redis_client /\ gear_id \in DOMAIN gear
               fetched == [id |-> gear_id, distance |-> remoteGear[gear_id]]
           IN /\ hit => /\ obs'.gearReqs = obs.gearReqs
                        /\ gear' = gear
                        /\ shoes_data' = Append(shoes_data, shoe_info(gear[gear_id]))
              /\ (~hit /\ gear_id \notin obs'.gearFailed)
                   => /\ obs'.gearReqs = Append(obs.gearReqs, gear_id)
                      /\ shoes_redis_client => gear' = Put(gear, gear_id, fetched)
                      /\ shoes_data' = Append(shoes_data, shoe_info(fetched)) ]_vars

\* A run on the cache that resolved gear 1 from the cache and gear 2 from the
\* remote, and stored it.
C13_Witness ==
  /\ pc = "returned"
  /\ shoes_redis_client
  /\ obs.gearReqs = << 2 >>
  /\ obs.gearFailed = {}
  /\ Len(shoes_data) = 2
  /\ 2 \in DOMAIN gear
  /\ gear[2] = [id |-> 2, distance |-> remoteGear[2]]

\* The answers with which a remote detail request fails.
Failures == {"404", "401", "exc"}

\* C14 (as claimed): resolve reports its failure by cause, so that two
\* resolutions that failed for different causes (404, 401, other error) hand
\* different results to their callers.
C14_FailureByCause ==
  \A p, q \in Resolvers :
    ( /\ flows[p].pc = "done" /\ flows[p].answer \in Failures
      /\ flows[q].pc = "done" /\ flows[q].answer \in Failures
      /\ flows[p].answer # flows[q].answer )
    => flows[p].result # flows[q].result

\* C14 (amended): resolve reports every failure the same way: after a remote
\* 404, a remote 401 and any other transport or HTTP error alike it returns
\* None, having issued exactly one remote request (none is retried).
C14_FailureUniform ==
  \A p \in Resolvers :
    (flows[p].pc = "done" /\ flows[p].answer \in Failures)
      => flows[p].result = None /\ flows[p].requests = 1

\* One resolution answered 404 and one answered 401, both returned.
C14_Witness ==
  \E p, q \in Resolvers :
    /\ flows[p].pc = "done" /\ flows[p].answer = "404"
    /\ flows[q].pc = "done" /\ flows[q].answer = "401"
    /\ flows[p].result = flows[q].result

\* C15: gear cache entries are never invalidated or overwritten by the engine.
\* No step other than the bulk cache clear removes or changes a cached gear
\* record, and every resolution of a cached identifier by a run on the cache
\* returns the cached record with no remote request, also when the remote
\* gear's distance has changed since the record was cached.
C15_GearCacheStable ==
  [][ \/ ClearCache
      \/ /\ \A id \in DOMAIN gear : id \in DOMAIN gear' /\ gear'[id] = gear[id]
         /\ ( /\ pc = "gear" /\ todo # << >> /\ todo' # todo
              /\ shoes_redis_client /\ Head(todo) \in DOMAIN gear )
              => /\ obs'.gearReqs = obs.gearReqs
                 /\ shoes_data' = Append(shoes_data, shoe_info(gear[Head(todo)])) ]_vars

\* A run resolved from the cache, with no remote request, a gear whose
\* distance at the remote is no longer the cached one.
C15_Witness ==
  /\ pc = "returned"
  /\ shoes_redis_client
  /\ obs.gearReqs = << >>
  /\ \E i \in 1..Len(shoes_data) :
       /\ shoes_data[i].id \in DOMAIN gear
       /\ shoes_data[i].distance_meters = gear[shoes_data[i].id].distance
       /\ shoes_data[i].distance_meters # remoteGear[shoes_data[i].id]

\* The flows whose remote detail request for gear_id is in flight.
InFlight(gear_id) ==
  { p \in Resolvers : flows[p].pc = "fetch" /\ flows[p].gear_id = gear_id }

\* C16 (as claimed): coalescing.  When flows resolve the same uncached gear
\* identifier at the same time, at most one remote detail request for it is in
\* flight at any time and the gear key is written at most once.
C16_Coalesced ==
  \A gear_id \in GearIds :
    Cardinality(InFlight(gear_id)) <= 1 /\ gear_writes[gear_id] <= 1

\* C16 (amended): no coalescing.  Every flow that finds the key absent sends
\* its own request and writes the key when it is answered; a flow that enters
\* after the key is written sends none.  So for each identifier the requests
\* in flight plus the writes made never exceed the number of flows, a written
\* key is in the cache, and a flow that returned a cached record sent no
\* request.
C16_NotCoalesced ==
  /\ \A gear_id \in GearIds :
       /\ Cardinality(InFlight(gear_id)) + gear_writes[gear_id]
            <= Cardinality(Resolvers)
       /\ gear_writes[gear_id] > 0 <=> gear_id \in DOMAIN gear
  /\ \A p \in Resolvers :
       (flows[p].pc = "done" /\ flows[p].answer = "hit") => flows[p].requests = 0

\* Both flows had a request for gear 2 in flight and then both wrote the key.
C16_Witness ==
  /\ gear_writes[2] = 2
  /\ \A p \in Resolvers :
       /\ flows[p].pc = "done"
       /\ flows[p].gear_id = 2
       /\ flows[p].requests = 1
       /\ flows[p].answer = "ok"

\* C17 (as claimed): index invariant.  In every reachable state, the states
\* left behind when a put or a cycle is interrupted by an error included, every
\* cached activity whose updated_at is present has an entry in the index
\* activities:updated_at whose score is that activity's updated_at.
C17_IndexInvariant ==
  \A id \in DOMAIN activity :
    activity[id].updated_at # 0
      => /\ id \in DOMAIN updated_at_index
         /\ updated_at_index[id] = activity[id].updated_at

\* C18: identity-set invariant.  After any sequence of sync cycles (on a redis
\* server that answers) with no cache clear in between, all_ids() is exactly
\* the set of activity ids set_activity was called with: none missing, none
\* extra.
C18_IdentitySet ==
  get_all_activity_ids(RedisKeys(activity, gear)) = put_ids

\* Two cycles have put activities, and gear keys are in the db beside them.
C18_Witness ==
  /\ pc = "returned"
  /\ obs.written # {}
  /\ put_ids # obs.written
  /\ put_ids = DOMAIN activity
  /\ DOMAIN gear # {}
  /\ DOMAIN gear # put_ids

\* The ids of the activities on page p of the listing.
PageIds(p) == { PageOf(p)[i].id : i \in 1..Len(PageOf(p)) } \ {0}

\* C19: early-stop rule.  In a cycle that uses the cache and found it
\* non-empty, a page that was answered and on which every item was already
\* cached is the last page requested: the cycle issues no listing request
\* after it.
C19_EarlyStopRule ==
  (pc \in {"listing", "gear", "returned"} /\ redis_client /\ cached_activity_ids # {})
    => \A i \in 1..Len(obs.listReqs) :
         (obs.listAns[i] = "ok" /\ PageIds(obs.listReqs[i]) \subseteq cached_activity_ids)
           => i = Len(obs.listReqs) /\ pc # "listing"

\* Page 1 was full and entirely cached: pagination stopped there although the
\* listing has a second page.
C19_Witness ==
  /\ pc \in {"gear", "returned"}
  /\ redis_client
  /\ cached_activity_ids # {}
  /\ obs.listReqs = << 1 >>
  /\ obs.listAns = << "ok" >>
  /\ PageIds(1) \subseteq cached_activity_ids
  /\ Len(listing) > per_page

\* C20: single writer per namespace.  A step of the pagination phase (the page
\* loop) writes only activity keys and the index and leaves every gear key as
\* it was; a step of the gear resolution phase writes only gear keys and
\* leaves every activity key and the index as they were.
C20_SingleWriter ==
  [][ /\ pc = "listing" => gear' = gear
      /\ pc = "gear" => activity' = activity /\ updated_at_index' = updated_at_index
    ]_vars

\* A run on the cache in which both phases wrote: activities were put and a
\* fetched gear was stored.
C20_Witness ==
  /\ pc = "returned"
  /\ redis_client
  /\ obs.written # {}
  /\ obs.gearReqs # << >>
  /\ \E i \in 1..Len(obs.gearReqs) : obs.gearReqs[i] \in DOMAIN gear

\* C21: the persisted credential.  In a cycle the stored access token and
\* refresh token change only in the step of a refresh exchange that returned
\* an access token: the probe, a failed refresh, every listing step and every
\* gear step leave them as they were; and after a probe that succeeded no
\* refresh call is made.
C21_CredentialFrame ==
  [][ /\ (pc # "idle" /\ config' # config)
           => /\ pc = "refresh"
              /\ obs'.refreshCalls = obs.refreshCalls + 1
              /\ obs'.newTok # 0
              /\ config'.access_token = obs'.newTok
              /\ config'.client = config.client
      /\ obs'.probe = "200" => obs'.refreshCalls = 0 ]_vars

\* A refreshed run that went through pagination and gear resolution and ended
\* with the credential the refresh stored.
C21_Witness ==
  /\ pc = "returned"
  /\ obs.probe = "401"
  /\ obs.refreshCalls = 1
  /\ config.access_token = obs.newTok
  /\ obs.listReqs # << >>
  /\ obs.gearReqs # << >>

\* A run whose probe succeeded and that returned.
C21_WitnessProbe ==
  /\ pc = "returned"
  /\ obs.probe = "200"
  /\ obs.gearReqs # << >>

\* C22 (as claimed): every summary carries distance_km = distance_meters /
\* 1000 and distance_miles = distance_meters / 1609.34 exactly; a gear of
\* 160934 m is summarised as 160.934 km and 100.00 miles.
C22_ExactConversion ==
  \A i \in DOMAIN shoes_data :
     LET d == shoes_data[i].distance_meters
     IN  /\ shoes_data[i].distance_km * 10 = d
         /\ shoes_data[i].distance_miles * CentimetersPerMile = d * 10000

\* C22 (amended): every summary carries the two quotients rounded to two
\* decimals: distance_km is within half a hundredth of distance_meters /
\* 1000 and distance_miles within half a hundredth of distance_meters /
\* 1609.34; a gear of 160934 m is summarised as 160.93 km and 100.00 miles.
C22_RoundedConversion ==
  \A i \in DOMAIN shoes_data :
     LET d  == shoes_data[i].distance_meters
         km == shoes_data[i].distance_km
         mi == shoes_data[i].distance_miles
     IN  /\ km * 10 - d <= 5 /\ d - km * 10 <= 5
         /\ 2 * (mi * CentimetersPerMile - d * 10000) <= CentimetersPerMile
         /\ 2 * (d * 10000 - mi * CentimetersPerMile) <= CentimetersPerMile
         /\ d = 160934 => km = 16093 /\ mi = 10000

\* A returned run that summarised the gear of 160934 m and another gear.
C22_Witness ==
  /\ pc = "returned"
  /\ \E i \in DOMAIN shoes_data : shoes_data[i].distance_meters = 160934
  /\ \E i \in DOMAIN shoes_data :
        /\ shoes_data[i].distance_meters # 160934
        /\ shoes_data[i].distance_km * 10 # shoes_data[i].distance_meters

\* The contents a time-ordered index can have beside the cached activities:
\* entries for any of them, each score on either scale.
IndexVariants ==
  UNION { [S -> {1, MaxTimestamp + 1}] : S \in SUBSET (DOMAIN activity) }

\* A cycle that starts here with the index idx leaves the initial read with
\* the same identifiers and the same client as with the index it has.
SameSnapshot(idx) ==
  LET keys == RedisKeys(activity, gear)
      a == Snapshot(TRUE, redis_left, keys, updated_at_index)
      b == Snapshot(TRUE, redis_left, keys, idx)
  IN  /\ a.cached_activity_ids = b.cached_activity_ids
      /\ a.redis_client = b.redis_client

\* The page loop classifies and writes the items of the current page with
\* the index idx as it does with the index it has.
SamePage(idx) ==
  LET st == [ activity |-> activity, index |-> updated_at_index,
              gear |-> gear, gear_ids |-> gear_ids, count |-> new_activities_count,
              all_cached |-> TRUE, written |-> {},
              left |-> redis_left, raised |-> FALSE ]
      a == ProcessActivities(PageOf(page), redis_client, st)
      b == ProcessActivities(PageOf(page), redis_client, [st EXCEPT !.index = idx])
  IN  /\ a.activity = b.activity
      /\ a.gear_ids = b.gear_ids
      /\ a.count = b.count
      /\ a.all_cached = b.all_cached
      /\ a.written = b.written

\* C23 (as claimed): latest_update_time is observability only.  Of two cycles
\* that start from caches differing only in the contents of the time-ordered
\* index, each step does the same: the initial read hands pagination the same
\* identifiers and the same client (so the same listing requests follow), and
\* every page is classified and written alike.
C23_IndexUnobserved ==
  \A idx \in IndexVariants :
     /\ pc = "idle" => SameSnapshot(idx)
     /\ pc = "listing" => SamePage(idx)

\* The same for the indexes whose scores datetime.fromtimestamp converts.
C23_ConvertibleIndexUnobserved ==
  ~fromtimestamp_raises(get_latest_activity_update_time(updated_at_index))
    => \A idx \in IndexVariants :
          ~fromtimestamp_raises(get_latest_activity_update_time(idx))
            => /\ pc = "idle" => SameSnapshot(idx)
               /\ pc = "listing" => SamePage(idx)

\* A cycle on a reachable cache: pagination ran without its client because
\* the newest score of the index does not convert, listed the whole listing
\* and wrote nothing, while the gear loop used the cache.
C23_Witness ==
  /\ pc = "returned"
  /\ SnapshotFailed
  /\ redis_left = Up
  /\ obs.cacheError = "snapshot"
  /\ Len(listing) = MaxAct
  /\ ListedIds \subseteq DOMAIN activity
  /\ Len(obs.listReqs) > 1
  /\ obs.written = {}

\* C24: sequential pagination without retries.  The listing requests of a
\* cycle are for the pages 1, 2, 3, ... in this order, each once; a page is
\* followed by a request for the next one only when it was answered, and then
\* every item of it has been classified and, when the cache is in use, is in
\* the cache: it was cached when the cycle began or the cycle has written it.
C24_Sequential ==
  LET n == Len(obs.listReqs)
  IN  /\ obs.listReqs = Pages(n)
      /\ Len(obs.listAns) = n
      /\ pc = "listing" => page = n + 1
      /\ \A p \in 1..n :
            (p < n \/ pc = "listing")
              => /\ obs.listAns[p] = "ok"
                 /\ redis_client
                      => /\ PageIds(p) \subseteq DOMAIN activity
                         /\ PageIds(p) \subseteq cached_activity_ids \cup obs.written

\* Page 2 was requested after the new items of page 1 had been written.
C24_Witness ==
  /\ redis_client
  /\ obs.listReqs = << 1, 2 >>
  /\ PageIds(1) # {}
  /\ PageIds(1) \subseteq obs.written

\* The gear identifiers of the items of page p.
PageGearIds(p) == { PageOf(p)[i].gear_id : i \in 1..Len(PageOf(p)) } \ {0}

\* C25: gear seeding.  In a cycle that uses the cache and found it non-empty,
\* the working set of gear identifiers holds, from the start of pagination to
\* the end of resolution and whatever ended pagination, the gear_id of every
\* activity that was cached when the cycle began and has one.
C25_GearSeeding ==
  (pc \in {"listing", "gear", "returned"} /\ redis_client /\ cached_activity_ids # {})
    => \A i \in cached_activity_ids :
         /\ i \in DOMAIN activity
         /\ activity[i].gear_id # 0 => activity[i].gear_id \in gear_ids

\* Pagination was ended by a transport error on its first request, and the
\* gears handed to resolution are those of the cached activities.
C25_Witness ==
  /\ pc \in {"gear", "returned"}
  /\ redis_client
  /\ obs.listAns = << "exc" >>
  /\ Cardinality(gear_ids) = 2

\* Pagination stopped early after page 1, and a gear that only a cached
\* activity of a later page has was handed to resolution.
C25_WitnessEarly ==
  /\ pc \in {"gear", "returned"}
  /\ redis_client
  /\ obs.stop = "early"
  /\ obs.listReqs = << 1 >>
  /\ \E i \in cached_activity_ids \ PageIds(1) :
        /\ activity[i].gear_id # 0
        /\ activity[i].gear_id \notin PageGearIds(1)
        /\ activity[i].gear_id \in gear_ids

\* The elements of a sequence, and whether none occurs twice.
Range(seq) == { seq[i] : i \in 1..Len(seq) }

NoDuplicates(seq) == Cardinality(Range(seq)) = Len(seq)

\* C26: one resolution per gear.  In one cycle resolve is called once for
\* each identifier of the working set and for nothing else: during the gear
\* loop the identifiers resolved and those still to do partition the set, and
\* at the return every one has been resolved once.  No identifier has more
\* than one remote detail request, requests are made for resolved identifiers
\* only, and no identifier has more than one summary.
C26_OncePerGear ==
  /\ NoDuplicates(obs.resolved)
  /\ NoDuplicates(obs.gearReqs)
  /\ Range(obs.gearReqs) \subseteq Range(obs.resolved)
  /\ SummaryIds \subseteq Range(obs.resolved)
  /\ Cardinality(SummaryIds) = Len(shoes_data)
  /\ pc = "gear" => /\ Range(obs.resolved) \cup Range(todo) = gear_ids
                    /\ Range(obs.resolved) \cap Range(todo) = {}
                    /\ NoDuplicates(todo)
  /\ pc = "returned" => Range(obs.resolved) = gear_ids

\* A returned cycle that resolved two gears, one from the remote and one from
\* the cache.
C26_Witness ==
  /\ pc = "returned"
  /\ obs.resolved = << 1, 2 >>
  /\ Len(obs.gearReqs) = 1
  /\ Len(shoes_data) = 2

\* C27: run to completion.  Against a remote whose listing is finite and
\* which answers every request, a cycle that has begun pagination finishes,
\* whatever the cache held: it issues at most one listing request more than
\* the listing has full pages, resolves each identifier of the working set in
\* one pass, and reaches its return (or its failure).
C27_RunToCompletion ==
  /\ [](/\ Len(obs.listReqs) <= Len(listing) \div per_page + 1
        /\ Len(obs.resolved) <= Cardinality(gear_ids))
  /\ (pc \in {"listing", "gear"}) ~> (pc \in {"returned", "failed"})

\* A cycle that found the cache holding a part of the listing, listed two
\* pages, resolved two gears and returned.
C27_Witness ==
  /\ pc = "returned"
  /\ cached_activity_ids # {}
  /\ Len(obs.listReqs) = Len(listing) \div per_page + 1
  /\ Len(obs.listReqs) > 1
  /\ Len(obs.resolved) = 2

\* Every listing request of the cycle was answered with a page.
AllAnswered == \A i \in 1..Len(obs.listAns) : obs.listAns[i] = "ok"

\* The early-stop test holds of page p: the cache is in use, was found
\* non-empty, and the page has items, all of them cached.
EarlyAt(p) ==
  /\ redis_client
  /\ cached_activity_ids # {}
  /\ PageOf(p) # << >>
  /\ PageIds(p) \subseteq cached_activity_ids

\* C28: last-page rule.  An answered page that is empty or shorter than
\* per_page is the last page requested.  When pagination has ended with every
\* request answered and not by the early stop, the last page requested is the
\* first one that is empty or shorter than per_page; with the cache disabled
\* there is no early stop, so this is how every pagination without an error
\* ends.
C28_LastPage ==
  LET n == Len(obs.listReqs)
  IN  /\ \A p \in 1..n :
            (obs.listAns[p] = "ok" /\ Len(PageOf(p)) < per_page)
               => p = n /\ pc # "listing"
      /\ (pc \in {"gear", "returned"} /\ AllAnswered /\ ~EarlyAt(n))
            => /\ Len(PageOf(n)) < per_page
               /\ \A p \in 1..(n - 1) : Len(PageOf(p)) = per_page
      /\ (pc \in {"gear", "returned"} /\ AllAnswered /\ ~redis_client)
            => Len(PageOf(n)) < per_page

\* With the cache disabled a listing of one full and one short page was
\* listed in two requests.
C28_Witness ==
  /\ pc \in {"gear", "returned"}
  /\ ~redis_client
  /\ AllAnswered
  /\ obs.listReqs = << 1, 2 >>
  /\ Len(PageOf(2)) = 1

\* With the cache in use a listing of one full page was listed in two
\* requests, the second answered with an empty page.
C28_WitnessEmpty ==
  /\ pc \in {"gear", "returned"}
  /\ redis_client
  /\ AllAnswered
  /\ obs.listReqs = << 1, 2 >>
  /\ PageOf(2) = << >>

\* The gear identifiers of the listing items that carry an id.
IdGearIds ==
  { listing[i].gear_id : i \in { i \in 1..Len(listing) : listing[i].id # 0 } } \ {0}

\* The identifiers on the pages that were requested and answered.
AnsweredIds ==
  UNION { PageIds(obs.listReqs[i]) :
            i \in { i \in 1..Len(obs.listReqs) : obs.listAns[i] = "ok" } }

\* C29: items without id.  A listing item whose id is missing or falsy is
\* never written to the cache, contributes no gear identifier to the working
\* set, and is not counted as new; and in a cycle that uses a non-empty cache
\* an answered page that has items, of which all those with an id are
\* cached, is the last page requested, id-less items on it or not.
C29_IdlessIgnored ==
  /\ 0 \notin DOMAIN activity
  /\ 0 \notin DOMAIN updated_at_index
  /\ 0 \notin obs.written
  /\ gear_ids \subseteq IdGearIds
  /\ pc \in {"listing", "gear", "returned"}
       => new_activities_count = IF redis_client
                                 THEN Cardinality(obs.written)
                                 ELSE Cardinality(AnsweredIds)
  /\ (pc \in {"listing", "gear", "returned"} /\ redis_client /\ cached_activity_ids # {})
       => \A i \in 1..Len(obs.listReqs) :
            ( /\ obs.listAns[i] = "ok"
              /\ PageOf(obs.listReqs[i]) # << >>
              /\ PageIds(obs.listReqs[i]) \subseteq cached_activity_ids )
              => i = Len(obs.listReqs) /\ pc # "listing"

\* Page 1 held an id-less item with a gear of its own beside a cached
\* activity: pagination stopped there, before page 2, and the gear of the
\* id-less item is not in the working set.
C29_Witness ==
  /\ pc \in {"gear", "returned"}
  /\ redis_client
  /\ obs.listReqs = << 1 >>
  /\ obs.listAns = << "ok" >>
  /\ Len(listing) > per_page
  /\ \E i \in 1..per_page :
        /\ listing[i].id = 0
        /\ listing[i].gear_id # 0
        /\ listing[i].gear_id \notin gear_ids
  /\ PageIds(1) # {}
  /\ PageIds(1) \subseteq cached_activity_ids

\* C30: a failed resolve is not cached.  A step of the gear loop whose remote
\* detail request fails (404, 401 or transport error) leaves the gear cache
\* as it was, with no key for that identifier (in a cycle that runs on the
\* cache, where a key would have answered the resolve), and adds no summary; a
\* resolve of an identifier that has no key in the gear cache, as after such
\* a failure in an earlier cycle, issues a remote detail request for it.
C30_FailureNotCached ==
  [][ (pc = "gear" /\ todo # << >> /\ obs'.resolved # obs.resolved)
        => LET gear_id == Head(todo)
           IN  /\ gear_id \in obs'.gearFailed
                    => /\ gear' = gear
                       /\ shoes_redis_client => gear_id \notin DOMAIN gear'
                       /\ SummaryIds' = SummaryIds
               /\ gear_id \notin DOMAIN gear
                    => obs'.gearReqs = Append(obs.gearReqs, gear_id) ]_vars

\* The detail request for gear 1 failed in the cycle before; this cycle, on
\* the cache, requested it again, was refused again, and the key is absent.
C30_Witness ==
  /\ pc = "returned"
  /\ shoes_redis_client
  /\ cached_activity_ids # {}
  /\ obs.listReqs = << 1 >>
  /\ obs.stop = "early"
  /\ 1 \in obs.gearFailed
  /\ 1 \in Range(obs.gearReqs)
  /\ 1 \notin DOMAIN gear
  /\ 2 \in DOMAIN gear

====
